---------------------------- MODULE Spec2Model ----------------------------
(***************************************************************************)
(* A model of the caching and protocol-translation layer of mtango.py:     *)
(*   - the pool of device proxies kept by get_device_proxy,                *)
(*   - CachedMethod / CachedDatabase, the cache for database read calls,   *)
(*   - encode_device_properties / decode_device_properties.                *)
(*                                                                         *)
(* The specifications share the variables:                                 *)
(*   Spec         get_device_proxy called by one request at a time         *)
(*   SpecThreads  get_device_proxy run by several request threads, one     *)
(*                source line at a time                                    *)
(*   SpecCache    calls of a CachedMethod while time passes                *)
(*   SpecDb       queries through the CachedDatabase facade db             *)
(*   SpecCodec    the property wire codec applied to bounded inputs        *)
(*   SpecWire     the decoder applied to lists cut short or empty          *)
(*   SpecRoutes   the routes of a device, one request at a time            *)
(*   SpecPuts     attribute PUTs run by several request threads            *)
(*   SpecProps    the property routes as users of db                       *)
(***************************************************************************)
EXTENDS Integers, Sequences, FiniteSets, TLC

VARIABLES
    device_proxies,   \* mtango.py:83, the OrderedDict devname -> proxy
    created,          \* number of PyTango.DeviceProxy objects built at line 90
    inserted,         \* history: every (devname, proxy) stored at line 94, in order
    ret,              \* outcome of the last finished get_device_proxy call
    th,               \* per request thread: its position in get_device_proxy
    overlap,          \* history: two running calls shared a devname
    now,              \* time.time(), in seconds
    ttl,              \* CachedDatabase._ttl, mtango.py:63
    _methods,         \* CachedDatabase._methods, mtango.py:60: name -> CachedMethod
    directory,        \* the remote database behind CachedDatabase._db
    q,                \* the query through db that is in progress
    res,              \* outcome of the last finished query
    run,              \* history: the current run of identical queries
    device,           \* the codec's input: the device name
    data,             \* the codec's input: the dict property name -> values
    wire,             \* the flat list encode_device_properties returned
    decoded,          \* what decode_device_properties made of wire
    decodedTail,      \* what it made of wire without the device name
    stage,            \* how far the codec has been applied
    req,              \* per request thread: its position in a route of a device
    attrValue,        \* the remote device: attribute name -> committed value
    put               \* the request of a property route that is in progress

poolVars == <<device_proxies, created, inserted, ret, th, overlap>>

dbVars == <<now, ttl, _methods, directory, q, res, run>>

codecVars == <<device, data, wire, decoded, decodedTail, stage>>

routeVars == <<req, attrValue, put>>

vars == <<poolVars, dbVars, codecVars, routeVars>>

-----------------------------------------------------------------------------
(* Bounds of the model and constants of the program.                       *)

\* mtango.py:82
MAX_PROXIES == 100

\* device names beyond the pool's capacity that requests may name
ExtraDevices == 2

\* evictions a behaviour of Spec may perform once the pool is full
MaxEvictions == 3

\* request threads of SpecThreads, and the calls each of them makes
NumThreads == 2

MaxThreadCalls == 2

\* SpecThreads starts from a pool this many entries short of full, or full
Headroom == 1

\* Device names.  get_device_proxy uses a name only as a dictionary key, so
\* names are numbered in the order in which they first enter the pool;
\* name 0 is "sys/database/2" (line 97).
DevNames == 0 .. (MAX_PROXIES + ExtraDevices - 1)

SysDatabase == 0

-----------------------------------------------------------------------------
(* collections.OrderedDict as get_device_proxy uses it: a sequence of      *)
(* key/value entries in insertion order.                                   *)

Entry(k, v) == [key |-> k, value |-> v]

\* `key in od`
ODContains(od, k) == \E i \in 1 .. Len(od) : od[i].key = k

\* `od[key]` for a key that is present
ODGet(od, k) == od[CHOOSE i \in 1 .. Len(od) : od[i].key = k].value

\* `od.keys()`
ODKeys(od) == [i \in 1 .. Len(od) |-> od[i].key]

\* `del od[key]` for a key that is present
ODDel(od, k) == SelectSeq(od, LAMBDA e : e.key # k)

\* `od[key] = value`: a new key goes last, a present key keeps its place
ODSet(od, k, v) ==
    IF ODContains(od, k)
    THEN [i \in 1 .. Len(od) |-> IF od[i].key = k THEN Entry(k, v) ELSE od[i]]
    ELSE Append(od, Entry(k, v))


-----------------------------------------------------------------------------
(* get_device_proxy, mtango.py:86-95.                                      *)

NoProxy == 0

Threads == 1 .. NumThreads

IdleThread ==
    [pc |-> "idle", devname |-> SysDatabase, proxy |-> NoProxy,
     oldest |-> SysDatabase, outcome |-> "none", calls |-> 0]

Running(t) == th[t].pc # "idle"

\* the names that have entered the pool or are being acquired
KnownNames ==
    {inserted[i].key : i \in 1 .. Len(inserted)}
        \cup {th[t].devname : t \in {u \in Threads : Running(u)}}

\* A request names a known device or the first unknown one.  Names enter
\* the pool in their numbering order, so the known names are 0 .. n-1 and
\* the first unknown name is n.
Requestable ==
    LET known == KnownNames
        firstUnknown == Cardinality(known)
    IN  known \cup {d \in DevNames : d = firstUnknown}

\* The names the threads of SpecThreads ask for: any name outside the pool,
\* and of the pooled names the oldest and the newest.
ThreadRequestable ==
    {d \in Requestable :
        \/ ~ODContains(device_proxies, d)
        \/ d = device_proxies[1].key
        \/ d = device_proxies[Len(device_proxies)].key}

\* a pool that moves a used entry to the newest place, as an LRU would
PoolAfterHitMovedLast(od, devname) ==
    Append(ODDel(od, devname), Entry(devname, ODGet(od, devname)))

\* lines 88-89: a pooled name is answered from the pool, which is not touched
PoolAfterHit(od, devname) == od

\* an eviction that waits until the pool is over its capacity
PoolAfterEvictLate(od) ==
    IF Len(od) > MAX_PROXIES THEN ODDel(od, ODKeys(od)[1]) ELSE od

\* an eviction that drops the newest key
PoolAfterEvictNewest(od) ==
    IF Len(od) = MAX_PROXIES THEN ODDel(od, ODKeys(od)[Len(od)]) ELSE od

\* lines 91-93: a full pool loses its first key
PoolAfterEvict(od) ==
    IF Len(od) = MAX_PROXIES THEN ODDel(od, ODKeys(od)[1]) ELSE od

\* a function that makes room before it creates the proxy
PoolAfterFailureEvicted(od) == PoolAfterEvict(od)

\* line 90 raises DevFailed: lines 91-94 are not reached
PoolAfterFailure(od) == od

\* lines 91-94
PoolAfterInsert(od, devname, proxy) == ODSet(PoolAfterEvict(od), devname, proxy)

\* The whole function, for a request that runs alone.  reachable tells
\* whether PyTango.DeviceProxy(devname) succeeds or raises DevFailed.
GetDeviceProxy(devname, reachable) ==
    /\ \A t \in Threads : ~Running(t)
    /\ IF ODContains(device_proxies, devname)
       THEN /\ device_proxies' = PoolAfterHit(device_proxies, devname)
            /\ ret' = [devname |-> devname, outcome |-> "pooled",
                       proxy |-> ODGet(device_proxies, devname)]
            /\ UNCHANGED <<created, inserted>>
       ELSE IF ~reachable
       THEN /\ device_proxies' = PoolAfterFailure(device_proxies)
            /\ ret' = [devname |-> devname, outcome |-> "DevFailed",
                       proxy |-> NoProxy]
            /\ UNCHANGED <<created, inserted>>
       ELSE /\ created < MAX_PROXIES + MaxEvictions
            /\ created' = created + 1
            /\ device_proxies' =
                   PoolAfterInsert(device_proxies, devname, created + 1)
            /\ inserted' = Append(inserted, Entry(devname, created + 1))
            /\ ret' = [devname |-> devname, outcome |-> "created",
                       proxy |-> created + 1]
    /\ UNCHANGED <<th, overlap>>

\* line 97 has run: "sys/database/2" is pooled
PoolInit ==
    /\ device_proxies = <<Entry(SysDatabase, 1)>>
    /\ created = 1
    /\ inserted = <<Entry(SysDatabase, 1)>>
    /\ ret = [devname |-> SysDatabase, outcome |-> "created", proxy |-> 1]
    /\ th = [t \in Threads |-> IdleThread]
    /\ overlap = FALSE

-----------------------------------------------------------------------------
(* get_device_proxy run by several request threads.  A thread runs one     *)
(* source line at a time and may be preempted between lines; th[t].pc is   *)
(* the line it executes next.                                              *)

ThreadAt(t, line) == th[t].pc = line

Goto(t, line) == [th EXCEPT ![t].pc = line]

\* the call of thread t ends, by return or by an exception
Leave(t, outcome, proxy) ==
    [th EXCEPT ![t].pc = "idle", ![t].outcome = outcome, ![t].proxy = proxy]

\* line 88, on entry: `if devname in device_proxies`
Line88(t, devname) ==
    /\ ThreadAt(t, "idle")
    /\ th[t].calls < MaxThreadCalls
    /\ th' = [th EXCEPT ![t] =
                 [pc |-> IF ODContains(device_proxies, devname) THEN "89" ELSE "90",
                  devname |-> devname, proxy |-> NoProxy, oldest |-> SysDatabase,
                  outcome |-> "none", calls |-> @.calls + 1]]
    /\ overlap' = (overlap \/ \E u \in Threads \ {t} :
                                  Running(u) /\ th[u].devname = devname)
    /\ UNCHANGED <<device_proxies, created, inserted, ret>>

\* line 89: `return device_proxies[devname]`, a KeyError when the key is gone
Line89(t) ==
    /\ ThreadAt(t, "89")
    /\ th' = IF ODContains(device_proxies, th[t].devname)
             THEN Leave(t, "pooled", ODGet(device_proxies, th[t].devname))
             ELSE Leave(t, "KeyError", NoProxy)
    /\ UNCHANGED <<device_proxies, created, inserted, ret, overlap>>

\* line 90: `proxy = PyTango.DeviceProxy(devname)`, which may raise DevFailed
Line90(t, reachable) ==
    /\ ThreadAt(t, "90")
    /\ IF reachable
       THEN /\ created' = created + 1
            /\ th' = [th EXCEPT ![t].pc = "91", ![t].proxy = created + 1]
       ELSE /\ th' = Leave(t, "DevFailed", NoProxy)
            /\ UNCHANGED created
    /\ UNCHANGED <<device_proxies, inserted, ret, overlap>>

\* line 91: `if len(device_proxies) == MAX_PROXIES`
Line91(t) ==
    /\ ThreadAt(t, "91")
    /\ th' = Goto(t, IF Len(device_proxies) = MAX_PROXIES THEN "92" ELSE "94")
    /\ UNCHANGED <<device_proxies, created, inserted, ret, overlap>>

\* line 92: `oldest = device_proxies.keys()[0]`, an IndexError on an empty pool
Line92(t) ==
    /\ ThreadAt(t, "92")
    /\ th' = IF Len(device_proxies) = 0
             THEN Leave(t, "IndexError", NoProxy)
             ELSE [th EXCEPT ![t].pc = "93",
                             ![t].oldest = ODKeys(device_proxies)[1]]
    /\ UNCHANGED <<device_proxies, created, inserted, ret, overlap>>

\* line 93: `del device_proxies[oldest]`, a KeyError when the key is gone
Line93(t) ==
    /\ ThreadAt(t, "93")
    /\ IF ODContains(device_proxies, th[t].oldest)
       THEN /\ device_proxies' = ODDel(device_proxies, th[t].oldest)
            /\ th' = Goto(t, "94")
       ELSE /\ th' = Leave(t, "KeyError", NoProxy)
            /\ UNCHANGED device_proxies
    /\ UNCHANGED <<created, inserted, ret, overlap>>

\* lines 94-95: `device_proxies[devname] = proxy; return proxy`
Line94(t) ==
    /\ ThreadAt(t, "94")
    /\ device_proxies' = ODSet(device_proxies, th[t].devname, th[t].proxy)
    /\ inserted' = Append(inserted, Entry(th[t].devname, th[t].proxy))
    /\ th' = Leave(t, "created", th[t].proxy)
    /\ UNCHANGED <<created, ret, overlap>>

\* the pool after k names were acquired one after the other
SeqPool(k) == [i \in 1 .. k |-> Entry(i - 1, i)]

ThreadsPool ==
    /\ \E k \in (MAX_PROXIES - Headroom) .. MAX_PROXIES :
           /\ device_proxies = SeqPool(k)
           /\ created = k
           /\ inserted = SeqPool(k)
           /\ ret = [devname |-> k - 1, outcome |-> "created", proxy |-> k]
    /\ th = [t \in Threads |-> IdleThread]
    /\ overlap = FALSE

-----------------------------------------------------------------------------
(* CachedMethod and CachedDatabase, mtango.py:39-77.                       *)

\* the longest ttl a CachedMethod is built with; time ends a second later
MaxTtl == 2

MaxTime == MaxTtl + 1

\* mtango.py:77, `db = CachedDatabase(ttl=10)`
DbTtl == 10


\* the callers of db, and the longest run of identical queries recorded
NumCallers == 3

MaxRun == 5

\* the keys of the remote database that queries name, and their values
Keys == {"a/b/c", "x/y/z"}

Values == {"v1", "v2"}

Callers == 1 .. NumCallers

\* what a command without a result returns (None)
NoValue == "None"

\* The names asked of db, as strings.
DbGetDeviceWideList ==
    <<"D","b","G","e","t","D","e","v","i","c","e","W","i","d","e","L","i","s","t">>

DbGetDeviceInfo ==
    <<"D","b","G","e","t","D","e","v","i","c","e","I","n","f","o">>

DbGetDevicePropertyList ==
    <<"D","b","G","e","t","D","e","v","i","c","e","P","r","o","p","e","r","t","y",
      "L","i","s","t">>

DbGetDeviceProperty ==
    <<"D","b","G","e","t","D","e","v","i","c","e","P","r","o","p","e","r","t","y">>

DbPutDeviceProperty ==
    <<"D","b","P","u","t","D","e","v","i","c","e","P","r","o","p","e","r","t","y">>

\* a name that line 66 takes for a 'get' method; no route asks for one
GetDeviceInfo == <<"G","e","t","D","e","v","i","c","e","I","n","f","o">>

RouteReadNames ==
    {DbGetDeviceWideList, DbGetDeviceInfo, DbGetDevicePropertyList,
     DbGetDeviceProperty}

\* The queries: a read names a key, DbPutDeviceProperty a key and its value.
Queries ==
    {<<m, <<k>>>> : m \in RouteReadNames \cup {GetDeviceInfo}, k \in Keys}
        \cup {<<DbPutDeviceProperty, <<k, v>>>> : k \in Keys, v \in Values}

\* str.startswith
StartsWith(s, prefix) ==
    Len(s) >= Len(prefix) /\ SubSeq(s, 1, Len(prefix)) = prefix

\* a cache that takes every name holding "Get" for a 'get' method
HoldsGet(method) ==
    \E i \in 1 .. Len(method) : StartsWith(SubSeq(method, i, Len(method)), <<"G","e","t">>)

\* a cache that also takes the database's DbGet commands for 'get' methods
IsReadCommand(method) ==
    StartsWith(method, <<"G","e","t">>) \/ StartsWith(method, <<"D","b","G","e","t">>)

\* line 66: `method.startswith("Get")`
IsGetMethod(method) == StartsWith(method, <<"G","e","t">>)

\* the queries that reach a CachedMethod
CachedQueries == {query \in Queries : IsGetMethod(query[1])}

\* ttldict.TTLDict: key -> (time stored, value); an entry is present only
\* while now - time stored < ttl.
TTLContains(cache, key, t) ==
    key \in DOMAIN cache.entries /\ t - cache.entries[key].stored < cache.ttl

TTLSet(cache, key, value, t) ==
    [cache EXCEPT !.entries =
        [k \in DOMAIN cache.entries \cup {key} |->
            IF k = key THEN [stored |-> t, value |-> value] ELSE cache.entries[k]]]

\* CachedMethod.__init__, lines 43-45
NewCachedMethod(t) == [ttl |-> t, entries |-> <<>>]

\* CachedDatabase.__getattr__, lines 65-73: the methods table after the lookup
MethodsAfterGetattr(methods, method, t) ==
    IF ~IsGetMethod(method) \/ method \in DOMAIN methods
    THEN methods
    ELSE (method :> NewCachedMethod(t)) @@ methods

\* a CachedMethod that calls its method whatever the cache holds
CallStartUncached(cache, args, t) == "invoke"

\* line 48: `if args in self.cache`
CallStart(cache, args, t) ==
    IF TTLContains(cache, args, t) THEN "getitem" ELSE "invoke"

\* a CachedMethod that stores None when its method raises
CacheAfterFailureStored(cache, args, t) == TTLSet(cache, args, NoValue, t)

\* line 50 raises: lines 51-52 do not run
CacheAfterFailure(cache, args, t) == cache

\* the remote database runs a command: <<the directory after, the result>>
Remote(method, args, dir) ==
    IF method = DbPutDeviceProperty
    THEN <<[dir EXCEPT ![args[1]] = args[2]], NoValue>>
    ELSE <<dir, dir[args[1]]>>

\* db does not look at its caller: callers are numbered in the order in
\* which they first take part in the current run of identical queries
KnownCallers == {c \in Callers : c <= Cardinality(run.callers) + 1}

IdleQuery == [pc |-> "idle", method |-> <<>>, args |-> <<>>, value |-> NoValue]

NoResult == [method |-> <<>>, args |-> <<>>, outcome |-> "none", value |-> NoValue]

\* The history of the current run of identical queries that all returned:
\* when it began, the calls finished, the calls made of the database proxy,
\* the callers, whether all results were the same, and whether the first
\* query found no cache entry.  A query that raises ends the run.
NoRun ==
    [method |-> <<>>, args |-> <<>>, first |-> 0, calls |-> 0, invoked |-> 0,
     callers |-> {}, same |-> TRUE, cold |-> FALSE]

Raised(outcome) == outcome \in {"DevFailed", "KeyError"}

\* the query in progress ends, by return or by an exception
Finish(outcome, value) ==
    /\ q' = IdleQuery
    /\ res' = [method |-> q.method, args |-> q.args, outcome |-> outcome,
               value |-> value]
    /\ run' = IF Raised(outcome)
              THEN NoRun
              ELSE [run EXCEPT
                       !.calls = @ + 1,
                       !.invoked = @ + (IF q.pc = "direct" THEN 1 ELSE 0),
                       !.same = @ /\ (run.calls = 0 \/ value = res.value)]

\* `db.<method>(*args)` begins: __getattr__ (lines 65-73) and, for a
\* CachedMethod, the test of line 48
DbBegin(method, args, caller) ==
    /\ q.pc = "idle"
    /\ _methods' = MethodsAfterGetattr(_methods, method, ttl)
    /\ LET pc == IF method \in DOMAIN _methods'
                 THEN CallStart(_methods'[method], args, now)
                 ELSE "direct"
       IN  /\ q' = [pc |-> pc, method |-> method, args |-> args, value |-> NoValue]
           /\ run' = IF run.method = method /\ run.args = args /\ run.calls < MaxRun
                     THEN [run EXCEPT !.callers = @ \cup {caller}]
                     ELSE [NoRun EXCEPT !.method = method, !.args = args,
                                        !.first = now, !.callers = {caller},
                                        !.cold = (pc # "getitem")]
    /\ UNCHANGED <<now, ttl, directory, res>>

\* line 49: `return self.cache[args]`, a KeyError when the entry has expired
DbGetItem ==
    /\ q.pc = "getitem"
    /\ IF TTLContains(_methods[q.method], q.args, now)
       THEN Finish("cached", _methods[q.method].entries[q.args].value)
       ELSE Finish("KeyError", NoValue)
    /\ UNCHANGED <<now, ttl, _methods, directory>>

\* line 50, or the call of the method line 69 returned: the command runs on
\* the database proxy, or raises DevFailed
DbInvoke(ok) ==
    /\ q.pc \in {"invoke", "direct"}
    /\ IF ~ok
       THEN /\ Finish("DevFailed", NoValue)
            /\ _methods' =
                  IF q.pc = "invoke"
                  THEN [_methods EXCEPT ![q.method] =
                           CacheAfterFailure(@, q.args, now)]
                  ELSE _methods
            /\ UNCHANGED directory
       ELSE LET out == Remote(q.method, q.args, directory)
            IN  /\ directory' = out[1]
                /\ IF q.pc = "direct"
                   THEN Finish("direct", out[2])
                   ELSE /\ q' = [q EXCEPT !.pc = "store", !.value = out[2]]
                        /\ run' = [run EXCEPT !.invoked = @ + 1]
                        /\ UNCHANGED res
                /\ UNCHANGED _methods
    /\ UNCHANGED <<now, ttl>>

\* lines 51-52: `self.cache[args] = value; return value`
DbStore ==
    /\ q.pc = "store"
    /\ _methods' = [_methods EXCEPT ![q.method] = TTLSet(@, q.args, q.value, now)]
    /\ Finish("computed", q.value)
    /\ UNCHANGED <<now, ttl, directory>>

\* a second passes
Tick ==
    /\ now < MaxTime
    /\ now' = now + 1
    /\ UNCHANGED <<ttl, _methods, directory, q, res, run>>

\* another client of the database changes an entry
DirectoryChange(key, value) ==
    /\ directory[key] # value
    /\ directory' = [directory EXCEPT ![key] = value]
    /\ UNCHANGED <<now, ttl, _methods, q, res, run>>

\* no query is made
DbIdle ==
    /\ now = 0
    /\ ttl = 1
    /\ _methods = <<>>
    /\ directory = [k \in Keys |-> "v1"]
    /\ q = IdleQuery
    /\ res = NoResult
    /\ run = NoRun

\* a CachedDatabase built with ttl t, over any state of the database
DbStart(t) ==
    /\ now = 0
    /\ ttl = t
    /\ _methods = <<>>
    /\ directory \in [Keys -> Values]
    /\ q = IdleQuery
    /\ res = NoResult
    /\ run = NoRun

-----------------------------------------------------------------------------
(* encode_device_properties and decode_device_properties, mtango.py:396-415 *)

\* the longest list of values of a property
MaxValues == 2

Devices == {"a/b/c"}

PropNames == {"Description", "Limits", "2"}

ValueStrings == {"a calibrated sensor", "0", "100"}

RECURSIVE SeqsUpTo(_, _)
SeqsUpTo(S, n) ==
    IF n = 0 THEN {<<>>}
    ELSE LET shorter == SeqsUpTo(S, n - 1)
         IN  shorter \cup {Append(x, e) : x \in {y \in shorter : Len(y) = n - 1}, e \in S}

\* the dicts the routes build from the request arguments (lines 424-428)
PropertyMaps ==
    UNION {[names -> SeqsUpTo(ValueStrings, MaxValues)] : names \in SUBSET PropNames}

\* the orders in which a dict of these names may be iterated
Orders(names) ==
    {o \in SeqsUpTo(names, Cardinality(names)) :
        Len(o) = Cardinality(names) /\ {o[i] : i \in 1 .. Len(o)} = names}

\* the decimal numerals str() writes and int() reads
Numerals == <<"0", "1", "2", "3", "4", "5", "6", "7", "8", "9">>

\* str(n) of a length
StrOfInt(n) == Numerals[n + 1]

\* str(v) of a value that is a string already
StrOfValue(v) == v

\* int(s): the number a numeral stands for, or a ValueError
IntOf(s) ==
    IF \E n \in 1 .. Len(Numerals) : Numerals[n] = s
    THEN (CHOOSE n \in 1 .. Len(Numerals) : Numerals[n] = s) - 1
    ELSE IF s = "100" THEN 100 ELSE -1

IsValueError(n) == n < 0

\* lines 411-414: the items of the dict, in the order it is iterated
RECURSIVE EncodeItems(_, _)
EncodeItems(props, order) ==
    IF order = <<>> THEN <<>>
    ELSE LET prop == Head(order)
             values == props[prop]
         IN  <<prop, StrOfInt(Len(values))>>
                 \o [i \in 1 .. Len(values) |-> StrOfValue(values[i])]
                 \o EncodeItems(props, Tail(order))

\* encode_device_properties, lines 409-415
EncodeDeviceProperties(dev, props, order) ==
    <<dev, StrOfInt(Cardinality(DOMAIN props))>> \o EncodeItems(props, order)

\* Python's list[a:b] and list[i], on indices counted from 0
Slice(list, a, b) ==
    IF a >= Len(list) THEN <<>>
    ELSE SubSeq(list, a + 1, IF b < Len(list) THEN b ELSE Len(list))

HasIndex(list, i) == i >= 0 /\ i < Len(list)

At(list, i) == list[i + 1]

\* line 398 reads the count at index 1, line 399 starts behind it
CountAt == 1

\* a decoder that steps over one field too few
NextPosShort(pos, length) == pos + 1 + length

\* line 405
NextPos(pos, length) == pos + 2 + length

Failed(error) == [status |-> error, props |-> <<>>, pos |-> 0]

\* lines 400-405, the loop with n rounds left
RECURSIVE DecodeLoop(_, _, _, _)
DecodeLoop(list, n, pos, props) ==
    IF n <= 0 THEN [status |-> "ok", props |-> props, pos |-> pos]
    ELSE IF ~HasIndex(list, pos) \/ ~HasIndex(list, pos + 1) THEN Failed("IndexError")
    ELSE LET length == IntOf(At(list, pos + 1))
         IN  IF IsValueError(length) THEN Failed("ValueError")
             ELSE DecodeLoop(list, n - 1, NextPos(pos, length),
                             Append(props,
                                    [name |-> At(list, pos),
                                     values |-> Slice(list, pos + 2, pos + 2 + length)]))

\* lines 397-406 with the count read at index countAt
DecodeFrom(list, countAt) ==
    IF ~HasIndex(list, countAt) THEN Failed("IndexError")
    ELSE LET n == IntOf(At(list, countAt))
         IN  IF IsValueError(n) THEN Failed("ValueError")
             ELSE DecodeLoop(list, n, countAt + 1, <<>>)

\* a decoder that expects the count first
DecodeCountFirst(list) == DecodeFrom(list, CountAt - 1)

\* decode_device_properties, lines 396-406
DecodeDeviceProperties(list) == DecodeFrom(list, CountAt)

NotDecoded == [status |-> "none", props |-> <<>>, pos |-> 0]

\* the codec is not used
CodecIdle ==
    /\ device = "a/b/c"
    /\ data = <<>>
    /\ wire = <<>>
    /\ decoded = NotDecoded
    /\ decodedTail = NotDecoded
    /\ stage = "input"

\* any device and any dict of properties
CodecStart ==
    /\ device \in Devices
    /\ data \in PropertyMaps
    /\ wire = <<>>
    /\ decoded = NotDecoded
    /\ decodedTail = NotDecoded
    /\ stage = "input"

Encode(order) ==
    /\ stage = "input"
    /\ wire' = EncodeDeviceProperties(device, data, order)
    /\ stage' = "encoded"
    /\ UNCHANGED <<device, data, decoded, decodedTail>>

\* the list is decoded as it is, and from the count field on
Decode ==
    /\ stage = "encoded"
    /\ decoded' = DecodeDeviceProperties(wire)
    /\ decodedTail' = DecodeDeviceProperties(Tail(wire))
    /\ stage' = "decoded"
    /\ UNCHANGED <<device, data, wire>>

\* lines 433 and 448: the list DbGetDeviceProperty returned reaches the
\* route with only its first k fields, none of them when k = 0
Receive(k) ==
    /\ stage = "encoded"
    /\ wire' = SubSeq(wire, 1, k)
    /\ stage' = "received"
    /\ UNCHANGED <<device, data, decoded, decodedTail>>

\* lines 436 and 449: the route decodes the list it was given
DecodeReceived ==
    /\ stage = "received"
    /\ decoded' = DecodeDeviceProperties(wire)
    /\ stage' = "decoded"
    /\ UNCHANGED <<device, data, wire, decodedTail>>

-----------------------------------------------------------------------------
(* The routes that work on a device through its proxy, mtango.py:124-391   *)
(* and 455-480.  A thread serves one request at a time; req[t].pc is the   *)
(* place of the route it has reached.                                      *)

\* requests a thread of SpecPuts serves
MaxPuts == 1

\* the device of the requests: the first name after "sys/database/2"
RouteDevice == SysDatabase + 1

\* the routes that call get_device_proxy
ProxyRoutes ==
    {"get_device", "get_device_state", "get_put_device_attributes",
     "get_device_attribute_info", "post_device_attribute_info",
     "get_device_attributes", "get_device_attribute", "get_device_commands"}

\* the routes that write attributes when the method is PUT
PutRoutes == {"get_put_device_attributes", "get_device_attribute"}

\* the attributes of the device and the writable field of their configs
Attrs == {"Position", "Voltage", "Gain"}

WritableOf(attr) ==
    CASE attr = "Position" -> "READ_WRITE"
      [] attr = "Voltage" -> "READ_WITH_WRITE"
      [] OTHER -> "WRITE"

\* the value strings of a request: numbers, a string str_2_obj cannot
\* convert, and no value
StrValues == {"0", "5", "abc", ""}

\* the device commits a written value clamped to its range
Clamp(v) == IF v < 1 THEN 1 ELSE IF v > 9 THEN 9 ELSE v

\* the arguments of a request: (attribute, value string) pairs
ArgPair(attr, str_value) == [attr |-> attr, str_value |-> str_value]

\* get_device_attribute names one attribute; the args of
\* get_put_device_attributes name one or two
ArgLists(route) ==
    IF route = "get_device_attribute"
    THEN {<<ArgPair(a, v)>> : a \in Attrs, v \in StrValues}
    ELSE IF route = "get_put_device_attributes"
    THEN {<<ArgPair(a, v)>> : a \in Attrs, v \in StrValues \ {""}}
            \cup {<<ArgPair(ab[1], "0"), ArgPair(ab[2], "5")>> :
                      ab \in {xy \in Attrs \X Attrs : xy[1] # xy[2]}}
    ELSE {<<>>}

IdleRequest ==
    [pc |-> "idle", route |-> "none", method |-> "GET", todo |-> <<>>,
     value |-> 0, committed |-> 0, calls |-> <<>>, results |-> <<>>,
     outcome |-> "none", failedAt |-> "none", attempts |-> 0, served |-> 0]

\* a route that renders the value it asked the device to write
ReadBackRequested(da, value) == value

\* lines 233-236 and 384-387: the value of the response is da.value
ReadBack(da, value) == da

\* a route that takes only READ_WRITE for the combined call
UsesCombinedReadWriteOnly(writable) == writable = "READ_WRITE"

\* lines 224-225 and 373-374
UsesCombined(writable) == writable \in {"READ_WRITE", "READ_WITH_WRITE"}

\* The `except` clause around get_device_proxy: PyTango.DevFailed in seven
\* routes, PyTango.DeviceProxy (line 306), which no DevFailed matches, in
\* post_device_attribute_info.
CatchesDevFailed(route) == route # "post_device_attribute_info"

\* the request ends with a response or with an exception that leaves the route
Ended(r, outcome, failedAt) ==
    [r EXCEPT !.pc = "done", !.outcome = outcome, !.failedAt = failedAt]

\* an exception raised outside any try block
Escaped(r, failedAt) == Ended(r, "escaped", failedAt)

\* a request arrives
RouteBegin(t, route, method, args) ==
    /\ req[t].pc \in {"idle", "done"}
    /\ req' = [req EXCEPT ![t] =
                  [IdleRequest EXCEPT !.pc = "acquire", !.route = route,
                                      !.method = method, !.todo = args,
                                      !.served = req[t].served + 1]]
    /\ UNCHANGED attrValue

\* where a route goes on once it has its proxy
AfterAcquire(r) ==
    IF r.method = "PUT" /\ r.route \in PutRoutes
    THEN IF r.route = "get_device_attribute" /\ r.todo[1].str_value = ""
         THEN Ended(r, "empty", "none")
         ELSE [r EXCEPT !.pc = "config"]
    ELSE IF r.route = "get_device_attribute"
    THEN [r EXCEPT !.pc = "read"]
    ELSE [r EXCEPT !.pc = "rest"]

\* `proxy = get_device_proxy(device)` in its try block, and for
\* get_device_attribute the test of lines 368-370
Acquire(t, reachable) ==
    /\ req[t].pc = "acquire"
    /\ GetDeviceProxy(RouteDevice, reachable)
    /\ LET r == [req[t] EXCEPT !.attempts =
                    @ + (IF ODContains(device_proxies, RouteDevice) THEN 0 ELSE 1)]
       IN  req' = [req EXCEPT ![t] =
                     IF ret'.outcome # "DevFailed" THEN AfterAcquire(r)
                     ELSE IF CatchesDevFailed(r.route)
                     THEN Ended(r, "envelope", "acquire")
                     ELSE Escaped(r, "acquire")]
    /\ UNCHANGED attrValue

\* lines 219 and 371: proxy.get_attribute_config
GetAttributeConfig(t, ok) ==
    /\ req[t].pc = "config"
    /\ req' = [req EXCEPT ![t] =
                  IF ok THEN [@ EXCEPT !.pc = "coerce"] ELSE Escaped(@, "config")]
    /\ UNCHANGED attrValue

\* lines 223 and 372: str_2_obj(str_value, attr_info.data_type)
Coerce(t) ==
    /\ req[t].pc = "coerce"
    /\ LET number == IntOf(req[t].todo[1].str_value)
       IN  req' = [req EXCEPT ![t] =
                     IF IsValueError(number) THEN Escaped(@, "coerce")
                     ELSE [@ EXCEPT !.pc = "write", !.value = number,
                                    !.calls = <<>>]]
    /\ UNCHANGED attrValue

\* lines 233-243 and 383-391: the attribute is done, its value is rendered;
\* the loop of get_put_device_attributes goes on with the next attribute
Rendered(r, da) ==
    LET done == [r EXCEPT !.results =
                    Append(@, [name |-> r.todo[1].attr,
                               value |-> ReadBack(da, r.value)]),
                          !.todo = Tail(@)]
    IN  IF done.todo = <<>> THEN Ended(done, "value", "none")
        ELSE [done EXCEPT !.pc = "coerce"]

Called(r, op) == [r EXCEPT !.calls = Append(@, op)]

\* lines 227 and 376: proxy.write_read_attribute, one call on the device
WriteRead(t, ok) ==
    /\ req[t].pc = "write"
    /\ UsesCombined(WritableOf(req[t].todo[1].attr))
    /\ LET r == Called(req[t], "write_read_attribute")
           attr == r.todo[1].attr
       IN  IF ok
           THEN /\ attrValue' = [attrValue EXCEPT ![attr] = Clamp(r.value)]
                /\ req' = [req EXCEPT ![t] =
                              Rendered([r EXCEPT !.committed = Clamp(r.value)],
                                       attrValue'[attr])]
           ELSE /\ req' = [req EXCEPT ![t] = Escaped(r, "write")]
                /\ UNCHANGED attrValue

\* lines 231 and 378: proxy.write_attribute
Write(t, ok) ==
    /\ req[t].pc = "write"
    /\ ~UsesCombined(WritableOf(req[t].todo[1].attr))
    /\ LET r == Called(req[t], "write_attribute")
           attr == r.todo[1].attr
       IN  IF ok
           THEN /\ attrValue' = [attrValue EXCEPT ![attr] = Clamp(r.value)]
                /\ req' = [req EXCEPT ![t] =
                              [r EXCEPT !.pc = "read",
                                        !.committed = Clamp(r.value)]]
           ELSE /\ req' = [req EXCEPT ![t] = Escaped(r, "write")]
                /\ UNCHANGED attrValue

\* lines 232, 379 and 381: proxy.read_attribute
Read(t, ok) ==
    /\ req[t].pc = "read"
    /\ LET r == Called(req[t], "read_attribute")
       IN  req' = [req EXCEPT ![t] =
                     IF ok THEN Rendered(r, attrValue[r.todo[1].attr])
                     ELSE Escaped(r, "read")]
    /\ UNCHANGED attrValue

\* The rest of a route that writes no attribute value: its calls on the
\* proxy are outside any try block, except in post_device_attribute_info
\* (lines 309-320).
Rest(t, ok) ==
    /\ req[t].pc = "rest"
    /\ req' = [req EXCEPT ![t] =
                  IF ok THEN Ended(@, "data", "none")
                  ELSE IF @.route = "post_device_attribute_info"
                  THEN Ended(@, "envelope", "rest")
                  ELSE Escaped(@, "rest")]
    /\ UNCHANGED attrValue

\* the methods a route is registered for
MethodsOf(route) ==
    IF route \in PutRoutes \cup {"get_device_attribute_info"} THEN {"GET", "PUT"}
    ELSE IF route = "post_device_attribute_info" THEN {"PUT"}
    ELSE {"GET"}

AttrsIdle ==
    /\ req = [t \in Threads |-> IdleRequest]
    /\ attrValue = [a \in Attrs |-> 5]

-----------------------------------------------------------------------------
(* The property routes get_device_properties and                           *)
(* read_write_device_property, mtango.py:418-450, as users of db.  The     *)
(* lists they encode and decode are SpecCodec's; here a property is a key  *)
(* of the database and its value.                                          *)

PropRoutes == {"get_device_properties", "read_write_device_property"}

PropMethods == {"GET", "PUT", "POST"}

IdleProp ==
    [pc |-> "idle", route |-> "none", method |-> "GET", key |-> "a/b/c",
     value |-> NoValue, issued |-> <<>>, result |-> NoValue,
     outcome |-> "none", before |-> NoValue]

\* lines 423 and 445: PUT and POST write first; line 431: a GET of
\* get_device_properties lists the names first
PropFirst(route, method) ==
    IF method \in {"PUT", "POST"} THEN "write"
    ELSE IF route = "get_device_properties" THEN "list"
    ELSE "read"

\* the query a place of the route makes of db
PropQuery(pc, key, value) ==
    CASE pc = "write" -> <<DbPutDeviceProperty, <<key, value>>>>
      [] pc = "list" -> <<DbGetDevicePropertyList, <<key>>>>
      [] OTHER -> <<DbGetDeviceProperty, <<key>>>>

\* a request arrives; `before` keeps what the last request read of this key
PropBegin(route, method, key, value) ==
    /\ put.pc \in {"idle", "done"}
    /\ q.pc = "idle"
    /\ put' = [IdleProp EXCEPT
                  !.pc = PropFirst(route, method), !.route = route,
                  !.method = method, !.key = key, !.value = value,
                  !.before = IF put.outcome = "response" /\ put.key = key
                             THEN put.result ELSE NoValue]
    /\ UNCHANGED dbVars

\* lines 429, 432, 433, 447, 448: the route calls db
PropCall ==
    /\ put.pc \in {"write", "list", "read"}
    /\ LET query == PropQuery(put.pc, put.key, put.value)
       IN  /\ DbBegin(query[1], query[2], 1)
           /\ put' = [put EXCEPT !.pc = "wait", !.issued = Append(@, query[1])]

\* the route after the call of db returned or raised: lines 433 and 448
\* follow the write, lines 436-437 and 449-450 the read
PropAfterCall(p, result) ==
    IF Raised(result.outcome)
    THEN [p EXCEPT !.pc = "done", !.outcome = "escaped"]
    ELSE IF p.issued[Len(p.issued)] = DbGetDeviceProperty
    THEN [p EXCEPT !.pc = "done", !.outcome = "response", !.result = result.value]
    ELSE [p EXCEPT !.pc = "read"]

\* db works on the call of the route
PropReturn ==
    /\ put.pc = "wait"
    /\ \/ DbGetItem
       \/ \E ok \in BOOLEAN : DbInvoke(ok)
       \/ DbStore
    /\ put' = IF q'.pc = "idle" THEN PropAfterCall(put, res') ELSE put

RoutesIdle == AttrsIdle /\ put = IdleProp

-----------------------------------------------------------------------------
(* The specifications.                                                     *)

Init == PoolInit /\ DbIdle /\ CodecIdle /\ RoutesIdle

Next ==
    /\ \E devname \in Requestable, reachable \in BOOLEAN :
           GetDeviceProxy(devname, reachable)
    /\ UNCHANGED <<dbVars, codecVars, routeVars>>

Spec == Init /\ [][Next]_vars

\* the request threads, over pools at and just below the capacity
ThreadsInit == ThreadsPool /\ DbIdle /\ CodecIdle /\ RoutesIdle

ThreadsNext ==
    \/ (\E t \in Threads, devname \in ThreadRequestable : Line88(t, devname))
           /\ UNCHANGED <<dbVars, codecVars, routeVars>>
    \/ (\E t \in Threads : Line89(t)) /\ UNCHANGED <<dbVars, codecVars, routeVars>>
    \/ (\E t \in Threads, reachable \in BOOLEAN : Line90(t, reachable))
           /\ UNCHANGED <<dbVars, codecVars, routeVars>>
    \/ (\E t \in Threads : Line91(t)) /\ UNCHANGED <<dbVars, codecVars, routeVars>>
    \/ (\E t \in Threads : Line92(t)) /\ UNCHANGED <<dbVars, codecVars, routeVars>>
    \/ (\E t \in Threads : Line93(t)) /\ UNCHANGED <<dbVars, codecVars, routeVars>>
    \/ (\E t \in Threads : Line94(t)) /\ UNCHANGED <<dbVars, codecVars, routeVars>>

SpecThreads == ThreadsInit /\ [][ThreadsNext]_vars

\* the queries that reach a CachedMethod, for every ttl
CacheInit ==
    /\ PoolInit
    /\ \E t \in 1 .. MaxTtl : DbStart(t)
    /\ CodecIdle
    /\ RoutesIdle

CacheNext ==
    \/ (\E query \in CachedQueries : DbBegin(query[1], query[2], 1))
           /\ UNCHANGED <<poolVars, codecVars, routeVars>>
    \/ DbGetItem /\ UNCHANGED <<poolVars, codecVars, routeVars>>
    \/ (\E ok \in BOOLEAN : DbInvoke(ok)) /\ UNCHANGED <<poolVars, codecVars, routeVars>>
    \/ DbStore /\ UNCHANGED <<poolVars, codecVars, routeVars>>
    \/ Tick /\ UNCHANGED <<poolVars, codecVars, routeVars>>
    \/ (\E key \in Keys, value \in Values : DirectoryChange(key, value))
           /\ UNCHANGED <<poolVars, codecVars, routeVars>>

SpecCache == CacheInit /\ [][CacheNext]_vars

\* The queries through db, line 77.  Its ttl is 10 seconds; the behaviours
\* end before a second has passed, the passing of time is SpecCache's.
DbInit ==
    /\ PoolInit
    /\ DbStart(DbTtl)
    /\ CodecIdle
    /\ RoutesIdle

DbNext ==
    \/ (\E query \in Queries, caller \in KnownCallers :
           DbBegin(query[1], query[2], caller))
           /\ UNCHANGED <<poolVars, codecVars, routeVars>>
    \/ DbGetItem /\ UNCHANGED <<poolVars, codecVars, routeVars>>
    \/ (\E ok \in BOOLEAN : DbInvoke(ok)) /\ UNCHANGED <<poolVars, codecVars, routeVars>>
    \/ DbStore /\ UNCHANGED <<poolVars, codecVars, routeVars>>
    \/ (\E key \in Keys, value \in Values : DirectoryChange(key, value))
           /\ UNCHANGED <<poolVars, codecVars, routeVars>>

SpecDb == DbInit /\ [][DbNext]_vars

\* the codec applied to every input
CodecInit == PoolInit /\ DbIdle /\ CodecStart /\ RoutesIdle

CodecNext ==
    \/ (\E order \in Orders(DOMAIN data) : Encode(order))
           /\ UNCHANGED <<poolVars, dbVars, routeVars>>
    \/ Decode /\ UNCHANGED <<poolVars, dbVars, routeVars>>

SpecCodec == CodecInit /\ [][CodecNext]_vars

\* the decoder applied to lists that arrive complete, cut short or empty
WireInit == PoolInit /\ DbIdle /\ CodecStart /\ RoutesIdle

WireNext ==
    \/ (\E order \in Orders(DOMAIN data) : Encode(order))
           /\ UNCHANGED <<poolVars, dbVars, routeVars>>
    \/ (\E k \in 0 .. Len(wire) : Receive(k))
           /\ UNCHANGED <<poolVars, dbVars, routeVars>>
    \/ DecodeReceived /\ UNCHANGED <<poolVars, dbVars, routeVars>>

SpecWire == WireInit /\ [][WireNext]_vars

\* requests of the routes of a device, served one at a time
MaxRequests == 2

RoutesInit == PoolInit /\ DbIdle /\ CodecIdle /\ RoutesIdle

RoutesNext ==
    \/ (\E route \in ProxyRoutes :
           \E method \in MethodsOf(route), args \in ArgLists(route) :
               /\ req[1].served < MaxRequests
               /\ RouteBegin(1, route, method, args))
           /\ UNCHANGED <<poolVars, dbVars, codecVars, put>>
    \/ (\E reachable \in BOOLEAN : Acquire(1, reachable))
           /\ UNCHANGED <<dbVars, codecVars, put>>
    \/ (\E ok \in BOOLEAN : GetAttributeConfig(1, ok))
           /\ UNCHANGED <<poolVars, dbVars, codecVars, put>>
    \/ Coerce(1) /\ UNCHANGED <<poolVars, dbVars, codecVars, put>>
    \/ (\E ok \in BOOLEAN : WriteRead(1, ok))
           /\ UNCHANGED <<poolVars, dbVars, codecVars, put>>
    \/ (\E ok \in BOOLEAN : Write(1, ok))
           /\ UNCHANGED <<poolVars, dbVars, codecVars, put>>
    \/ (\E ok \in BOOLEAN : Read(1, ok))
           /\ UNCHANGED <<poolVars, dbVars, codecVars, put>>
    \/ (\E ok \in BOOLEAN : Rest(1, ok))
           /\ UNCHANGED <<poolVars, dbVars, codecVars, put>>

SpecRoutes == RoutesInit /\ [][RoutesNext]_vars

\* The attribute PUTs of several request threads.  Every call on the proxy
\* is one step: a thread may be preempted between two calls.
PutArgs(route) == {args \in ArgLists(route) : \A i \in 1 .. Len(args) : args[i].str_value \in {"0", "5"}}

PutsInit == PoolInit /\ DbIdle /\ CodecIdle /\ RoutesIdle

PutsNext ==
    \/ (\E t \in Threads, route \in PutRoutes : \E args \in PutArgs(route) :
           /\ req[t].served < MaxPuts
           /\ RouteBegin(t, route, "PUT", args))
           /\ UNCHANGED <<poolVars, dbVars, codecVars, put>>
    \/ (\E t \in Threads, reachable \in BOOLEAN : Acquire(t, reachable))
           /\ UNCHANGED <<dbVars, codecVars, put>>
    \/ (\E t \in Threads, ok \in BOOLEAN : GetAttributeConfig(t, ok))
           /\ UNCHANGED <<poolVars, dbVars, codecVars, put>>
    \/ (\E t \in Threads : Coerce(t))
           /\ UNCHANGED <<poolVars, dbVars, codecVars, put>>
    \/ (\E t \in Threads, ok \in BOOLEAN : WriteRead(t, ok))
           /\ UNCHANGED <<poolVars, dbVars, codecVars, put>>
    \/ (\E t \in Threads, ok \in BOOLEAN : Write(t, ok))
           /\ UNCHANGED <<poolVars, dbVars, codecVars, put>>
    \/ (\E t \in Threads, ok \in BOOLEAN : Read(t, ok))
           /\ UNCHANGED <<poolVars, dbVars, codecVars, put>>

SpecPuts == PutsInit /\ [][PutsNext]_vars

\* requests of the property routes, served one at a time, while other
\* clients change the database
PropsInit ==
    /\ PoolInit
    /\ DbStart(DbTtl)
    /\ CodecIdle
    /\ AttrsIdle
    /\ put = IdleProp

PropsNext ==
    \/ (\E route \in PropRoutes, method \in PropMethods :
           \E key \in Keys, value \in Values :
               PropBegin(route, method, key, value))
           /\ UNCHANGED <<poolVars, codecVars, req, attrValue>>
    \/ PropCall /\ UNCHANGED <<poolVars, codecVars, req, attrValue>>
    \/ PropReturn /\ UNCHANGED <<poolVars, codecVars, req, attrValue>>
    \/ (\E key \in Keys, value \in Values : DirectoryChange(key, value))
           /\ UNCHANGED <<poolVars, codecVars, routeVars>>

SpecProps == PropsInit /\ [][PropsNext]_vars

-----------------------------------------------------------------------------
(* Properties of the pool.                                                 *)

Min(a, b) == IF a < b THEN a ELSE b

LastN(seq, n) == SubSeq(seq, Len(seq) - Min(n, Len(seq)) + 1, Len(seq))

PoolKeys == {device_proxies[i].key : i \in 1 .. Len(device_proxies)}

\* the entry the step's call stored
Stored == Entry(ret'.devname, ret'.proxy)

\* C1 (Spec): the pool never holds more than MAX_PROXIES proxies, and every
\* step leaves the pool as it is, or appends one entry for a new name to a
\* pool that is not full, or, on a full pool, removes exactly the oldest
\* entry and appends the new one.
C1_PoolBoundedEvictsOldest ==
    /\ [](Len(device_proxies) <= MAX_PROXIES)
    /\ [][\/ device_proxies' = device_proxies
          \/ /\ Stored.key \notin PoolKeys
             /\ Len(device_proxies) < MAX_PROXIES
             /\ device_proxies' = Append(device_proxies, Stored)
          \/ /\ Stored.key \notin PoolKeys
             /\ Len(device_proxies) = MAX_PROXIES
             /\ device_proxies' = Append(Tail(device_proxies), Stored)]_vars

\* a new name has just been inserted into a full pool, "sys/database/2" is gone
C1_Witness ==
    /\ ret.outcome = "created"
    /\ Len(inserted) > MAX_PROXIES
    /\ Len(device_proxies) = MAX_PROXIES
    /\ SysDatabase \notin PoolKeys

\* C2 (Spec): the pool holds exactly the last MAX_PROXIES insertions, in
\* their order and with the proxies they were inserted with: up to
\* MAX_PROXIES inserted names all remain, each insertion beyond that costs
\* exactly the first-inserted entry still present; and a call answered from
\* the pool returns the pooled proxy of its name.
C2_PoolIsLastInsertions ==
    /\ device_proxies = LastN(inserted, MAX_PROXIES)
    /\ ret.outcome = "pooled" =>
          /\ ret.devname \in PoolKeys
          /\ ret.proxy = ODGet(device_proxies, ret.devname)
          /\ \E i \in 1 .. Len(inserted) : inserted[i] = Entry(ret.devname, ret.proxy)

\* one name more than MAX_PROXIES was inserted, and the second-inserted name
\* is then answered from the pool
C2_Witness ==
    /\ Len(inserted) = MAX_PROXIES + 1
    /\ ret.outcome = "pooled"
    /\ ret.devname = inserted[2].key
    /\ inserted[1].key \notin PoolKeys

C4_ThreadsKeepPoolSound ==
    ~overlap =>
        /\ Len(device_proxies) <= MAX_PROXIES
        /\ \A t \in Threads : th[t].outcome \notin {"KeyError", "IndexError"}


\* C17 (Spec): the pool keeps the MAX_PROXIES last used proxies, so the
\* name that the latest call asked for and was given a proxy for is not the
\* one the next call evicts.
C17_LastUsedKept ==
    [][(ret.outcome # "DevFailed" /\ ret.devname \in PoolKeys) =>
          ODContains(device_proxies', ret.devname)]_vars

\* C19 (Spec): a call for a name that is not pooled and whose proxy cannot
\* be created ends with DevFailed and leaves the pool as it was, a full pool
\* too: same entries, same order, nothing created, nothing inserted.
C19_FailureLeavesPool ==
    [][(ret'.devname \notin PoolKeys /\ ret'.outcome = "DevFailed") =>
          /\ device_proxies' = device_proxies
          /\ inserted' = inserted
          /\ created' = created]_vars

\* the proxy of a new name could not be created while the pool was full
C19_Witness ==
    /\ ret.outcome = "DevFailed"
    /\ ret.devname \notin PoolKeys
    /\ Len(device_proxies) = MAX_PROXIES

-----------------------------------------------------------------------------
(* Properties of CachedMethod and CachedDatabase.                          *)

\* the run of identical queries began less than ttl seconds ago
RunInWindow == now - run.first < ttl

\* a query begins in this step
Begins == q.pc = "idle" /\ q'.pc # "idle"

\* the cache entry of a query is ttl seconds old or older
Expired(method, args) ==
    /\ method \in DOMAIN _methods
    /\ args \in DOMAIN _methods[method].entries
    /\ now - _methods[method].entries[args].stored >= ttl

\* C5 (SpecCache): a run of calls with the same arguments that began on a
\* miss less than ttl seconds ago has invoked the wrapped method exactly
\* once and returned the same value every time; and a call that begins
\* when its entry is ttl seconds old goes on to invoke the method again.
C5_OnceWithinTtl ==
    /\ [](run.cold /\ run.calls >= 2 /\ RunInWindow =>
              run.invoked = 1 /\ run.same)
    /\ [][Begins /\ Expired(q'.method, q'.args) => q'.pc = "invoke"]_vars

\* three calls of one run: the second was answered from the cache, the third
\* came after the entry expired, invoked the method again and returned the
\* database's new value
C5_Witness ==
    /\ run.cold
    /\ run.calls = 3
    /\ run.invoked = 2
    /\ res.outcome = "computed"
    /\ ~run.same
    /\ ~RunInWindow

\* C6 (SpecCache): when the wrapped method raises, the call ends with that
\* failure and the caches are as they were; and the next call with the
\* same arguments goes on to invoke the method.
C6_FailureNotCached ==
    [][/\ (q.pc = "invoke" /\ q'.pc = "idle") =>
             (res'.outcome = "DevFailed" /\ _methods' = _methods)
       /\ (Begins /\ res.outcome = "DevFailed"
              /\ q'.method = res.method /\ q'.args = res.args) =>
             q'.pc = "invoke"]_vars

\* the method raised, nothing is cached for its arguments, and the next
\* call with them is about to invoke it again
C6_Witness ==
    /\ res.outcome = "DevFailed"
    /\ q.pc = "invoke"
    /\ q.method = res.method
    /\ q.args = res.args
    /\ q.args \notin DOMAIN _methods[q.method].entries
    /\ DOMAIN _methods[q.method].entries # {}

\* the names that do not begin with "Get"
NotGetName(method) == Len(method) < 3 \/ SubSeq(method, 1, 3) # <<"G","e","t">>

\* C7 (SpecDb): a read query of the routes made 5 times with the same
\* arguments by 3 callers within ttl seconds has called the database proxy
\* once and returned the same value 5 times.
C7_RouteReadsCollapsed ==
    (/\ run.method \in RouteReadNames
     /\ run.calls = 5
     /\ Cardinality(run.callers) = 3
     /\ RunInWindow) =>
        run.invoked = 1 /\ run.same

\* C8 (SpecDb): a query whose name does not begin with "Get" goes straight
\* to the database proxy: it creates no CachedMethod, its one step is the
\* proxy's call, whose result or failure it returns, no cache is read or
\* changed, and a run of such queries has called the proxy once per query.
C8_OthersBypassCache ==
    /\ [][/\ (Begins /\ NotGetName(q'.method)) =>
                (q'.pc = "direct" /\ _methods' = _methods)
          /\ (q.pc = "direct" /\ q' # q) =>
                /\ q'.pc = "idle"
                /\ _methods' = _methods
                /\ res'.outcome \in {"direct", "DevFailed"}
                /\ (res'.outcome = "direct" =>
                       <<directory', res'.value>> =
                           Remote(q.method, q.args, directory))]_vars
    /\ [](NotGetName(run.method) /\ q.pc = "idle" => run.invoked = run.calls)

\* DbPutDeviceProperty was called twice with the same arguments and reached
\* the database proxy twice, while a CachedMethod holds an entry
C8_Witness ==
    /\ res.method = DbPutDeviceProperty
    /\ res.outcome = "direct"
    /\ run.calls = 2
    /\ run.invoked = 2
    /\ \E m \in DOMAIN _methods : DOMAIN _methods[m].entries # {}


-----------------------------------------------------------------------------
(* Properties of the property codec.                                       *)

\* the properties of the dict, as decode_device_properties lists them
Records(props) == {[name |-> n, values |-> props[n]] : n \in DOMAIN props}

\* a decoding that returned exactly the properties of the dict
Reproduces(result, props) ==
    /\ result.status = "ok"
    /\ Len(result.props) = Cardinality(DOMAIN props)
    /\ {result.props[i] : i \in 1 .. Len(result.props)} = Records(props)

\* C9 (SpecCodec): decoding what encode_device_properties returned gives
\* back the dict: each name once, with its values in their order; the
\* decoder has then read as many properties as the count field says and
\* stands at the end of the list.
C9_DecodeEncodeReproduces ==
    stage = "decoded" =>
        /\ Reproduces(decoded, data)
        /\ StrOfInt(Len(decoded.props)) = wire[2]
        /\ decoded.pos = Len(wire)

\* a dict with a property without values and one with two was decoded
C9_Witness ==
    /\ stage = "decoded"
    /\ decoded.status = "ok"
    /\ \E n \in DOMAIN data : data[n] = <<>>
    /\ \E n \in DOMAIN data : Len(data[n]) = 2

\* C10 as claimed (SpecCodec): the list without the device name, starting
\* at the count field, decodes to the properties of the dict.
C10_TailReproduces ==
    stage = "decoded" => Reproduces(decodedTail, data)

\* C10 as amended (SpecCodec): decode_device_properties gives back the
\* properties when the list keeps the device name in front of the count
\* field; from the count field on it raises or returns other properties.
C10_NeedsDeviceName ==
    stage = "decoded" =>
        /\ Reproduces(DecodeDeviceProperties(<<device>> \o Tail(wire)), data)
        /\ ~Reproduces(decodedTail, data)

\* the example: decoding from the count field raises at int("Description")
C10_Witness ==
    /\ stage = "decoded"
    /\ device = "a/b/c"
    /\ wire = <<"a/b/c", "2", "Description", "1", "a calibrated sensor",
                "Limits", "2", "0", "100">>
    /\ decodedTail.status = "ValueError"
    /\ Reproduces(decoded, data)

\* the number of fields the counts of an encoding of props declare
RECURSIVE ValueFields(_, _)
ValueFields(props, names) ==
    IF names = {} THEN 0
    ELSE LET name == CHOOSE x \in names : TRUE
         IN  2 + Len(props[name]) + ValueFields(props, names \ {name})

DeclaredLen(props) == 2 + ValueFields(props, DOMAIN props)

\* C11 (SpecWire): a list with fewer fields than its property count and
\* value counts declare is not decoded: decode_device_properties raises an
\* error and returns no property list.
C11_ShortListFails ==
    (stage = "decoded" /\ Len(wire) < DeclaredLen(data)) => decoded.status # "ok"

\* C18 (SpecWire): the empty list is decoded to the empty property list,
\* without an error.
C18_EmptyDecodesToEmpty ==
    (stage = "decoded" /\ wire = <<>>) =>
        (decoded.status = "ok" /\ decoded.props = <<>>)

-----------------------------------------------------------------------------
(* Properties of the routes.                                               *)

IsPrefix(a, b) == Len(a) <= Len(b) /\ a = SubSeq(b, 1, Len(a))

Writes(method) == method \in {"PUT", "POST"}

Last(seq) == seq[Len(seq)]

\* thread t is writing an attribute for a PUT and takes the step
PutStep(t) ==
    /\ req[t].method = "PUT"
    /\ req[t].pc \in {"write", "read"}
    /\ req'[t] # req[t]

\* the step ends the work on an attribute with a value for the response
Answers(t) == PutStep(t) /\ req'[t].results # req[t].results

\* C12 (SpecRoutes): the value an attribute PUT returns for an attribute is
\* the value the device holds after the write, which is the requested value
\* clamped to the device's range, under the attribute's name.
C12_ReturnsReadBack ==
    [][\A t \in Threads :
          Answers(t) =>
             LET attr == req[t].todo[1].attr
                 answer == Last(req'[t].results)
             IN  /\ answer.name = attr
                 /\ answer.value = attrValue'[attr]
                 /\ answer.value = Clamp(req[t].value)]_vars

\* a PUT of 0 was answered with another value, the one the device committed
C12_Witness ==
    /\ req[1].method = "PUT"
    /\ req[1].outcome = "value"
    /\ Len(req[1].results) = 1
    /\ req[1].value = 0
    /\ req[1].results[1].value = Clamp(0)
    /\ req[1].results[1].value # req[1].value

\* C13 (SpecRoutes): an attribute PUT in which get_attribute_config, the
\* conversion of the value, the write or the read raises ends with the
\* response of make_error_response.
C13_PutFailureEnveloped ==
    \A t \in Threads :
        (/\ req[t].pc = "done"
         /\ req[t].method = "PUT"
         /\ req[t].route \in PutRoutes
         /\ req[t].failedAt \in {"config", "coerce", "write", "read"})
           => req[t].outcome = "envelope"

\* C14 (SpecRoutes): when get_device_proxy raises DevFailed, the route ends
\* with the response of make_error_response, and one creation of a proxy
\* was attempted.
C14_AcquireFailureEnveloped ==
    \A t \in Threads :
        (req[t].pc = "done" /\ req[t].failedAt = "acquire")
           => (req[t].outcome = "envelope" /\ req[t].attempts = 1)

\* C15 (SpecPuts): the value an attribute PUT returns for an attribute is
\* the value its own write committed, whatever other PUTs run meanwhile.
C15_ReadsOwnWrite ==
    \A t \in Threads :
        (/\ req[t].method = "PUT"
         /\ req[t].results # <<>>
         /\ (req[t].pc = "coerce" \/ req[t].outcome = "value"))
           => Last(req[t].results).value = req[t].committed

\* C16 (SpecRoutes): for a READ_WRITE or READ_WITH_WRITE attribute a PUT
\* makes one write_read_attribute call and no other; for any other
\* attribute one write_attribute call and then one read_attribute call, the
\* read only after the write returned.
C16_CallsOfPut ==
    [][\A t \in Threads :
          PutStep(t) =>
             LET combined == WritableOf(req[t].todo[1].attr)
                                \in {"READ_WRITE", "READ_WITH_WRITE"}
                 calls == req'[t].calls
             IN  /\ Answers(t) =>
                       calls = IF combined THEN <<"write_read_attribute">>
                               ELSE <<"write_attribute", "read_attribute">>
                 /\ req'[t].failedAt = "write" =>
                       calls = IF combined THEN <<"write_read_attribute">>
                               ELSE <<"write_attribute">>
                 /\ req'[t].pc = "read" =>
                       (~combined /\ calls = <<"write_attribute">>)
                 /\ req'[t].failedAt = "read" =>
                       (~combined /\ calls = <<"write_attribute", "read_attribute">>)]_vars

\* a PUT of two attributes ended, the second written and read in two calls
C16_Witness ==
    /\ req[1].route = "get_put_device_attributes"
    /\ req[1].method = "PUT"
    /\ req[1].outcome = "value"
    /\ Len(req[1].results) = 2
    /\ req[1].calls = <<"write_attribute", "read_attribute">>

=============================================================================
